---- MODULE Spec2Model ----
(***************************************************************************)
(* EmbedMan: EmbedManager (embed_man/embed_manager.py).                    *)
(*                                                                         *)
(* A manager loads documents, splits them into chunks, embeds the chunks   *)
(* (through langchain's CacheBackedEmbeddings over a LocalFileStore when   *)
(* use_cache is true, through the bare embedding model otherwise), builds  *)
(* a Chroma index and returns a retriever.                                 *)
(*                                                                         *)
(* The repository's own code is the four methods of EmbedManager.  The     *)
(* objects they call (GenericLoader, RecursiveCharacterTextSplitter,       *)
(* LocalFileStore, CacheBackedEmbeddings, GPT4AllEmbeddings, Chroma) are   *)
(* langchain's; each is modelled at the call site by what that call does:  *)
(*   - loader.load(): returns documents or raises;                         *)
(*   - RecursiveCharacterTextSplitter(...): raises ValueError when         *)
(*     chunk_overlap > chunk_size, otherwise splits;                       *)
(*   - CacheBackedEmbeddings.from_bytes_store(...).embed_documents(texts): *)
(*     key = namespace + digest(text); mget reads every key's file, the    *)
(*     texts whose file is absent are sent, as one batch and in input      *)
(*     order, to the underlying model, mset writes each (key, vector),     *)
(*     and the vectors are merged back by index;                           *)
(*   - LocalFileStore.mset: Path.write_bytes, i.e. open(path, "wb")        *)
(*     (create or truncate) and then write;                                *)
(*   - LocalFileStore.mget: Path.exists() and Path.read_bytes();           *)
(*   - the value is json.dumps(vector) encoded, read back with json.loads. *)
(* One cache directory is shared by every manager of the model.            *)
(***************************************************************************)
EXTENDS Integers, Sequences

\* ---------------------------------------------------------------- bounds
MaxTexts == 2
CountCap == 2

\* ---------------------------------------------------------------- inputs
Procs == {1, 2}
SeqProcs == {1}
Contents == {"x", "y"}
\* What loader.load() may return.
DocSeqs == {<<"d1">>, <<"d1", "d2">>}
Namespaces == {<<"a">>, <<"a", "b">>}
ChunkSizes == {2}
ChunkOverlaps == {1, 2, 3}

SeqsUpTo(S, n) == UNION {[1..k -> S] : k \in 1..n}

\* The arguments of __init__ that the pipeline reads.
Configs ==
    [use_cache : BOOLEAN, namespace_cache : Namespaces,
     chunk_size : ChunkSizes, chunk_overlap : ChunkOverlaps]

DefaultConfig ==
    [use_cache |-> TRUE, namespace_cache |-> <<"a">>,
     chunk_size |-> 2, chunk_overlap |-> 1]

\* ------------------------------------------------- the embedding and cache
\* GPT4AllEmbeddings(): a fixed-length vector per text, a function of the text.
Embed(c) == IF c = "x" THEN <<"0.1">> ELSE <<"0.2">>

\* The digest part of a cache key (a hash of the text): fixed length, a
\* function of the text alone, different for different texts.
Digest(c) == IF c = "x" THEN <<"b", "c">> ELSE <<"c", "c">>

\* A key encoder that is not given the manager's namespace.
KeyEncoderNoNamespace(namespace, c) == Digest(c)

\* namespace=self.namespace_cache: the key is the namespace followed by the digest.
KeyEncoder(namespace, c) == namespace \o Digest(c)

AllKeys == {KeyEncoder(n, c) : n \in Namespaces, c \in Contents}

\* json.dumps(vector).encode()
Serialize(v) == <<"[">> \o v \o <<"]">>

WellFormed(b) == Len(b) >= 2 /\ b[1] = "[" /\ b[Len(b)] = "]"

\* json.loads(bytes.decode()); defined on well-formed bytes.
Deserialize(b) == SubSeq(b, 2, Len(b) - 1)

Absent == [exists |-> FALSE, data |-> <<>>]
Truncated == [exists |-> TRUE, data |-> <<>>]

\* A write that never reaches the file.
WriteBytesDropped(file, data) == file

\* f.write(data) on the opened file.
WriteBytes(file, data) == [exists |-> TRUE, data |-> data]

Complete(c) == [exists |-> TRUE, data |-> Serialize(Embed(c))]

None == [some |-> FALSE, v |-> <<>>]
Some(v) == [some |-> TRUE, v |-> v]

\* all_missing_indices = [i for i, vector in enumerate(vectors) if vector is None]
RECURSIVE MissingIndices(_, _)
MissingIndices(vs, i) ==
    IF i > Len(vs) THEN <<>>
    ELSE IF vs[i].some THEN MissingIndices(vs, i + 1)
    ELSE <<i>> \o MissingIndices(vs, i + 1)

AllIndices(ts) == [i \in 1..Len(ts) |-> i]

\* missing_texts = [texts[i] for i in missing_indices]
MissingTexts(ts, miss) == [j \in 1..Len(miss) |-> ts[miss[j]]]

\* A merge that puts the computed vectors at the front instead of at their indices.
MergeInOrderOfArrival(vs, miss, got) ==
    [i \in 1..Len(vs) |-> IF i <= Len(got) THEN Some(got[i]) ELSE vs[i]]

\* for index, updated_vector in zip(missing_indices, missing_vectors):
\*     vectors[index] = updated_vector
Merge(vs, miss, got) ==
    [i \in 1..Len(vs) |->
        IF \E j \in 1..Len(miss) : miss[j] = i
        THEN Some(got[CHOOSE j \in 1..Len(miss) : miss[j] = i])
        ELSE vs[i]]

\* A splitter that accepts every configuration.
SplitterRejectsNothing(size, overlap) == FALSE

\* RecursiveCharacterTextSplitter(chunk_size, chunk_overlap) raises ValueError
\* when the overlap is larger than the chunk size.
SplitterRejects(size, overlap) == overlap > size

\* run() calling generate_embeddings(texts) without passing use_cache.
RunUseCacheDefault(c) == TRUE

\* run(): generate_embeddings(texts, use_cache=self.use_cache)
RunUseCache(c) == c.use_cache

\* A counter that stops at CountCap.
Bump(n) == IF n < CountCap THEN n + 1 ELSE CountCap

\* ----------------------------------------------------------------- state
VARIABLES
    cfg,              \* the manager's attributes (self.*)
    pc,               \* where the manager's current call stands
    inRun,            \* the call is run() (else generate_embeddings called directly)
    argUseCache,      \* generate_embeddings' use_cache argument
    documents,        \* run(): documents
    splitArg,         \* split_documents: the documents it was called with
    texts,            \* the chunks handed to generate_embeddings
    raw,              \* mget: the files read so far
    vectors,          \* embed_documents: vectors, None where missing
    missing,          \* embed_documents: all_missing_indices
    computed,         \* embed_documents: missing_vectors
    idx,              \* loop index of mget / mset
    exc,              \* the exception in flight, "none" when there is none
    logged,           \* what run() passed to logging.error, "none" when nothing
    retriever,        \* the value the call returned
    calls,            \* the stage calls made by run(), in order, with arguments
    storeMade,        \* the call constructed LocalFileStore(self.cache_dir)
    files,            \* the cache directory: key -> file
    served,           \* per namespace and text: returned calls that computed it
    persisted         \* the keys whose file has held a complete value

vars == <<cfg, pc, inRun, argUseCache, documents, splitArg, texts, raw, vectors, missing,
          computed, idx, exc, logged, retriever, calls, storeMade, files, served,
          persisted>>

NoRetriever == [made |-> FALSE, index |-> <<>>]

hist == <<served, persisted>>

locals == <<documents, splitArg, texts, raw, vectors, missing, computed, idx,
            retriever>>

Fresh(p) ==
    /\ documents' = [documents EXCEPT ![p] = <<>>]
    /\ splitArg' = [splitArg EXCEPT ![p] = <<>>]
    /\ texts' = [texts EXCEPT ![p] = <<>>]
    /\ raw' = [raw EXCEPT ![p] = <<>>]
    /\ vectors' = [vectors EXCEPT ![p] = <<>>]
    /\ missing' = [missing EXCEPT ![p] = <<>>]
    /\ computed' = [computed EXCEPT ![p] = <<>>]
    /\ idx' = [idx EXCEPT ![p] = 1]
    /\ retriever' = [retriever EXCEPT ![p] = NoRetriever]

InitCommon ==
    /\ pc = [p \in Procs |-> "ready"]
    /\ inRun = [p \in Procs |-> FALSE]
    /\ argUseCache = [p \in Procs |-> TRUE]
    /\ documents = [p \in Procs |-> <<>>]
    /\ splitArg = [p \in Procs |-> <<>>]
    /\ texts = [p \in Procs |-> <<>>]
    /\ raw = [p \in Procs |-> <<>>]
    /\ vectors = [p \in Procs |-> <<>>]
    /\ missing = [p \in Procs |-> <<>>]
    /\ computed = [p \in Procs |-> <<>>]
    /\ idx = [p \in Procs |-> 1]
    /\ exc = [p \in Procs |-> "none"]
    /\ logged = [p \in Procs |-> "none"]
    /\ retriever = [p \in Procs |-> NoRetriever]
    /\ calls = [p \in Procs |-> <<>>]
    /\ storeMade = [p \in Procs |-> FALSE]
    /\ files = [k \in AllKeys |-> Absent]
    /\ served = [n \in Namespaces |-> [c \in Contents |-> 0]]
    /\ persisted = {}

\* One manager, freshly constructed, and an empty cache directory.
Init ==
    /\ cfg \in [Procs -> Configs]
    /\ \A p \in Procs \ SeqProcs : cfg[p] = DefaultConfig
    /\ InitCommon

\* Two managers with caching on, sharing the cache directory.
InitConc ==
    /\ cfg \in [Procs -> {c \in Configs : c.use_cache /\ c.chunk_overlap = 1}]
    /\ InitCommon

Key(p, i) == KeyEncoder(cfg[p].namespace_cache, texts[p][i])

\* An exception leaves generate_embeddings (its frame, and embed_documents',
\* are gone): run()'s handler catches it, a direct caller receives it.
Throw(p, e) ==
    /\ exc' = [exc EXCEPT ![p] = e]
    /\ pc' = [pc EXCEPT ![p] = IF inRun[p] THEN "except" ELSE "raised"]
    /\ raw' = [raw EXCEPT ![p] = <<>>]
    /\ vectors' = [vectors EXCEPT ![p] = <<>>]
    /\ missing' = [missing EXCEPT ![p] = <<>>]
    /\ computed' = [computed EXCEPT ![p] = <<>>]
    /\ idx' = [idx EXCEPT ![p] = 1]
    /\ texts' = [texts EXCEPT ![p] = IF inRun[p] THEN @ ELSE <<>>]
    /\ UNCHANGED <<documents, splitArg, retriever>>

\* ------------------------------------------------------------ operations
\* A new manager is constructed (a later run, possibly a restarted process).
Construct(p) ==
    /\ pc[p] \in {"returned", "raised"}
    /\ \E c \in Configs : cfg' = [cfg EXCEPT ![p] = c]
    /\ pc' = [pc EXCEPT ![p] = "ready"]
    /\ inRun' = [inRun EXCEPT ![p] = FALSE]
    /\ argUseCache' = [argUseCache EXCEPT ![p] = TRUE]
    /\ exc' = [exc EXCEPT ![p] = "none"]
    /\ logged' = [logged EXCEPT ![p] = "none"]
    /\ calls' = [calls EXCEPT ![p] = <<>>]
    /\ storeMade' = [storeMade EXCEPT ![p] = FALSE]
    /\ Fresh(p)
    /\ UNCHANGED <<files, hist>>

\* run() is called.
CallRun(p) ==
    /\ pc[p] = "ready"
    /\ pc' = [pc EXCEPT ![p] = "load"]
    /\ inRun' = [inRun EXCEPT ![p] = TRUE]
    /\ UNCHANGED <<cfg, argUseCache, exc, logged, calls, storeMade, files, hist>>
    /\ UNCHANGED locals

\* def generate_embeddings(self, texts, use_cache=True)
UseCacheDefault == TRUE

\* generate_embeddings(texts) is called directly, use_cache left to its default
\* or passed as False.
CallGenerateEmbeddings(p) ==
    /\ pc[p] = "ready"
    /\ \E ts \in SeqsUpTo(Contents, MaxTexts), uc \in {UseCacheDefault, FALSE} :
          /\ texts' = [texts EXCEPT ![p] = ts]
          /\ argUseCache' = [argUseCache EXCEPT ![p] = uc]
    /\ pc' = [pc EXCEPT ![p] = "gen"]
    /\ inRun' = [inRun EXCEPT ![p] = FALSE]
    /\ UNCHANGED <<cfg, exc, logged, calls, storeMade, files, hist>>
    /\ UNCHANGED <<documents, splitArg, raw, vectors, missing, computed, idx, retriever>>

\* documents = self.load_documents(): the loader returns documents.
LoadDocuments(p) ==
    /\ pc[p] = "load"
    /\ \E ds \in DocSeqs :
          documents' = [documents EXCEPT ![p] = ds]
    /\ calls' = [calls EXCEPT ![p] = Append(@, "load_documents")]
    /\ pc' = [pc EXCEPT ![p] = "split"]
    /\ UNCHANGED <<cfg, inRun, argUseCache, exc, logged, storeMade, files, hist>>
    /\ UNCHANGED <<splitArg, texts, raw, vectors, missing, computed, idx, retriever>>

\* self.load_documents() raises.
LoadDocumentsRaises(p) ==
    /\ pc[p] = "load"
    /\ calls' = [calls EXCEPT ![p] = Append(@, "load_documents")]
    /\ exc' = [exc EXCEPT ![p] = "LoaderError"]
    /\ pc' = [pc EXCEPT ![p] = "except"]
    /\ UNCHANGED <<cfg, inRun, argUseCache, logged, storeMade, files, hist>>
    /\ UNCHANGED locals

\* texts = self.split_documents(documents): the splitter accepts the
\* configuration and returns the chunks; run() then calls
\* generate_embeddings(texts, use_cache=self.use_cache).
SplitDocuments(p) ==
    /\ pc[p] = "split"
    /\ ~SplitterRejects(cfg[p].chunk_size, cfg[p].chunk_overlap)
    /\ \E ts \in SeqsUpTo(Contents, MaxTexts) :
          texts' = [texts EXCEPT ![p] = ts]
    /\ calls' = [calls EXCEPT ![p] = Append(@, "split_documents")]
    /\ splitArg' = [splitArg EXCEPT ![p] = documents[p]]
    /\ argUseCache' = [argUseCache EXCEPT ![p] = RunUseCache(cfg[p])]
    /\ pc' = [pc EXCEPT ![p] = "gen"]
    /\ UNCHANGED <<cfg, inRun, exc, logged, storeMade, files, hist>>
    /\ UNCHANGED <<documents, raw, vectors, missing, computed, idx, retriever>>

\* self.split_documents(documents) raises: the splitter rejects the configuration.
SplitDocumentsRaises(p) ==
    /\ pc[p] = "split"
    /\ SplitterRejects(cfg[p].chunk_size, cfg[p].chunk_overlap)
    /\ calls' = [calls EXCEPT ![p] = Append(@, "split_documents")]
    /\ splitArg' = [splitArg EXCEPT ![p] = documents[p]]
    /\ exc' = [exc EXCEPT ![p] = "ValueError"]
    /\ pc' = [pc EXCEPT ![p] = "except"]
    /\ UNCHANGED <<cfg, inRun, argUseCache, logged, storeMade, files, hist>>
    /\ UNCHANGED <<documents, texts, raw, vectors, missing, computed, idx, retriever>>

\* generate_embeddings, "if use_cache:": the cached embedder over a
\* LocalFileStore, and embed_documents starts with mget.
GenCached(p) ==
    /\ pc[p] = "gen"
    /\ argUseCache[p]
    /\ storeMade' = [storeMade EXCEPT ![p] = TRUE]
    /\ calls' = [calls EXCEPT ![p] =
                    IF inRun[p] THEN Append(@, "generate_embeddings") ELSE @]
    /\ raw' = [raw EXCEPT ![p] = <<>>]
    /\ idx' = [idx EXCEPT ![p] = 1]
    /\ pc' = [pc EXCEPT ![p] = "mget"]
    /\ UNCHANGED <<cfg, inRun, argUseCache, exc, logged, files, hist>>
    /\ UNCHANGED <<documents, splitArg, texts, vectors, missing, computed, retriever>>

\* generate_embeddings, "else:": the bare embedding model, which receives
\* every text.
GenPlain(p) ==
    /\ pc[p] = "gen"
    /\ ~argUseCache[p]
    /\ calls' = [calls EXCEPT ![p] =
                    IF inRun[p] THEN Append(@, "generate_embeddings") ELSE @]
    /\ vectors' = [vectors EXCEPT ![p] = [i \in 1..Len(texts[p]) |-> None]]
    /\ missing' = [missing EXCEPT ![p] = AllIndices(texts[p])]
    /\ pc' = [pc EXCEPT ![p] = "invoke"]
    /\ UNCHANGED <<cfg, inRun, argUseCache, exc, logged, storeMade, files, hist>>
    /\ UNCHANGED <<documents, splitArg, texts, raw, computed, idx, retriever>>

\* mget: the next key's file is read (None when it does not exist).
MGet(p) ==
    /\ pc[p] = "mget"
    /\ idx[p] <= Len(texts[p])
    /\ raw' = [raw EXCEPT ![p] = Append(@, files[Key(p, idx[p])])]
    /\ idx' = [idx EXCEPT ![p] = @ + 1]
    /\ UNCHANGED <<cfg, pc, inRun, argUseCache, exc, logged, calls, storeMade,
                   files, hist>>
    /\ UNCHANGED <<documents, splitArg, texts, vectors, missing, computed, retriever>>

\* mget: reading the next key's file fails.
MGetFault(p) ==
    /\ pc[p] = "mget"
    /\ idx[p] <= Len(texts[p])
    /\ Throw(p, "OSError")
    /\ UNCHANGED <<cfg, inRun, argUseCache, logged, calls, storeMade, files, hist>>

\* mget: every value read is deserialized; the missing indices are collected.
MGetDecode(p) ==
    /\ pc[p] = "mget"
    /\ idx[p] > Len(texts[p])
    /\ IF \E i \in 1..Len(raw[p]) : raw[p][i].exists /\ ~WellFormed(raw[p][i].data)
       THEN Throw(p, "JSONDecodeError")
       ELSE LET vs == [i \in 1..Len(raw[p]) |->
                          IF raw[p][i].exists
                          THEN Some(Deserialize(raw[p][i].data)) ELSE None]
                miss == MissingIndices(vs, 1)
            IN /\ vectors' = [vectors EXCEPT ![p] = vs]
               /\ missing' = [missing EXCEPT ![p] = miss]
               /\ pc' = [pc EXCEPT ![p] = IF miss = <<>> THEN "index" ELSE "invoke"]
               /\ UNCHANGED <<exc, documents, splitArg, texts, raw, computed, idx, retriever>>
    /\ UNCHANGED <<cfg, inRun, argUseCache, logged, calls, storeMade, files, hist>>

\* underlying_embeddings.embed_documents(missing_texts) returns the vectors.
Invoke(p) ==
    /\ pc[p] = "invoke"
    /\ LET batch == MissingTexts(texts[p], missing[p])
           got == [j \in 1..Len(batch) |-> Embed(batch[j])]
       IN /\ computed' = [computed EXCEPT ![p] = got]
          /\ IF argUseCache[p]
             THEN /\ pc' = [pc EXCEPT ![p] = "mset"]
                  /\ vectors' = vectors
             ELSE /\ pc' = [pc EXCEPT ![p] = "index"]
                  /\ vectors' = [vectors EXCEPT ![p] = [j \in 1..Len(got) |-> Some(got[j])]]
    /\ idx' = [idx EXCEPT ![p] = 1]
    /\ UNCHANGED <<cfg, inRun, argUseCache, exc, logged, calls, storeMade, files, hist>>
    /\ UNCHANGED <<documents, splitArg, texts, raw, missing, retriever>>

\* underlying_embeddings.embed_documents(missing_texts) raises.
InvokeRaises(p) ==
    /\ pc[p] = "invoke"
    /\ Throw(p, "EmbeddingServiceError")
    /\ UNCHANGED <<cfg, inRun, argUseCache, logged, calls, storeMade, files, hist>>

\* mset, write_bytes: open(path, "wb") creates or truncates the file.
MSetOpen(p) ==
    /\ pc[p] = "mset"
    /\ files' = [files EXCEPT ![Key(p, missing[p][idx[p]])] = Truncated]
    /\ pc' = [pc EXCEPT ![p] = "write"]
    /\ UNCHANGED <<cfg, inRun, argUseCache, exc, logged, calls, storeMade, hist>>
    /\ UNCHANGED locals

\* mset: opening the file fails; the file is as it was.
MSetOpenFault(p) ==
    /\ pc[p] = "mset"
    /\ Throw(p, "OSError")
    /\ UNCHANGED <<cfg, inRun, argUseCache, logged, calls, storeMade, files, hist>>

\* mset, write_bytes: the value is written; after the last pair the computed
\* vectors are merged into the result.
MSetWrite(p) ==
    /\ pc[p] = "write"
    /\ LET k == Key(p, missing[p][idx[p]])
           f == WriteBytes(files[k], Serialize(computed[p][idx[p]]))
       IN /\ files' = [files EXCEPT ![k] = f]
          /\ persisted' = IF WellFormed(f.data) THEN persisted \cup {k} ELSE persisted
    /\ IF idx[p] < Len(missing[p])
       THEN /\ idx' = [idx EXCEPT ![p] = @ + 1]
            /\ pc' = [pc EXCEPT ![p] = "mset"]
            /\ vectors' = vectors
       ELSE /\ idx' = idx
            /\ pc' = [pc EXCEPT ![p] = "index"]
            /\ vectors' = [vectors EXCEPT ![p] = Merge(@, missing[p], computed[p])]
    /\ UNCHANGED <<cfg, inRun, argUseCache, exc, logged, calls, storeMade, served>>
    /\ UNCHANGED <<documents, splitArg, texts, raw, missing, computed, retriever>>

\* mset: the write fails after the open; the file stays truncated.
MSetWriteFault(p) ==
    /\ pc[p] = "write"
    /\ Throw(p, "OSError")
    /\ UNCHANGED <<cfg, inRun, argUseCache, logged, calls, storeMade, files, hist>>

\* db = Chroma.from_documents(texts, embedder) stores each chunk with its
\* vector; return db.as_retriever(...).  embed_documents' frame is gone.
BuildIndex(p) ==
    /\ pc[p] = "index"
    /\ retriever' = [retriever EXCEPT ![p] =
                       [made |-> TRUE,
                        index |-> [i \in 1..Len(texts[p]) |->
                                      [chunk |-> texts[p][i], vector |-> vectors[p][i].v]]]]
    /\ served' =
          IF argUseCache[p]
          THEN [served EXCEPT ![cfg[p].namespace_cache] =
                   [c \in Contents |->
                       IF \E j \in 1..Len(missing[p]) : texts[p][missing[p][j]] = c
                       THEN Bump(@[c]) ELSE @[c]]]
          ELSE served
    /\ pc' = [pc EXCEPT ![p] = "returned"]
    /\ raw' = [raw EXCEPT ![p] = <<>>]
    /\ vectors' = [vectors EXCEPT ![p] = <<>>]
    /\ missing' = [missing EXCEPT ![p] = <<>>]
    /\ computed' = [computed EXCEPT ![p] = <<>>]
    /\ idx' = [idx EXCEPT ![p] = 1]
    /\ UNCHANGED <<cfg, inRun, argUseCache, exc, logged, calls, storeMade, files,
                   persisted>>
    /\ UNCHANGED <<documents, splitArg, texts>>

\* Chroma.from_documents raises while building the index.
BuildIndexRaises(p) ==
    /\ pc[p] = "index"
    /\ Throw(p, "ChromaError")
    /\ UNCHANGED <<cfg, inRun, argUseCache, logged, calls, storeMade, files, hist>>

\* run(), "except Exception as e": logging.error(...) and raise; run()'s
\* frame is gone.
RunExcept(p) ==
    /\ pc[p] = "except"
    /\ logged' = [logged EXCEPT ![p] = exc[p]]
    /\ pc' = [pc EXCEPT ![p] = "raised"]
    /\ documents' = [documents EXCEPT ![p] = <<>>]
    /\ splitArg' = [splitArg EXCEPT ![p] = <<>>]
    /\ texts' = [texts EXCEPT ![p] = <<>>]
    /\ UNCHANGED <<cfg, inRun, argUseCache, exc, calls, storeMade, files, hist>>
    /\ UNCHANGED <<raw, vectors, missing, computed, idx, retriever>>

\* ------------------------------------------------------- specifications
Step(p) ==
    \/ Construct(p)
    \/ CallRun(p)
    \/ CallGenerateEmbeddings(p)
    \/ LoadDocuments(p)
    \/ LoadDocumentsRaises(p)
    \/ SplitDocuments(p)
    \/ SplitDocumentsRaises(p)
    \/ GenCached(p)
    \/ GenPlain(p)
    \/ MGet(p)
    \/ MGetFault(p)
    \/ MGetDecode(p)
    \/ Invoke(p)
    \/ InvokeRaises(p)
    \/ MSetOpen(p)
    \/ MSetOpenFault(p)
    \/ MSetWrite(p)
    \/ MSetWriteFault(p)
    \/ BuildIndex(p)
    \/ BuildIndexRaises(p)
    \/ RunExcept(p)

Next == \E p \in SeqProcs : Step(p)

\* Calls made one after another by one manager at a time, with I/O faults.
Spec == Init /\ [][Next]_vars

ConcStep(p) ==
    \/ CallRun(p)
    \/ LoadDocuments(p)
    \/ SplitDocuments(p)
    \/ GenCached(p)
    \/ MGet(p)
    \/ MGetDecode(p)
    \/ Invoke(p)
    \/ MSetOpen(p)
    \/ MSetWrite(p)
    \/ BuildIndex(p)
    \/ RunExcept(p)

NextConc == \E p \in Procs : ConcStep(p)

\* Two runs at the same time on one cache directory, with no I/O fault.
SpecConc == InitConc /\ [][NextConc]_vars

\* ---------------------------------------------------------------- claims
IsComplete(f) == f.exists /\ WellFormed(f.data)

Cached(p) == argUseCache[p]

RunStages == <<"load_documents", "split_documents", "generate_embeddings">>

C2_BatchHasNoDuplicates ==
    \A p \in Procs :
       (pc[p] = "invoke" /\ Cached(p)) =>
          \A i, j \in 1..Len(missing[p]) :
             i # j => texts[p][missing[p][i]] # texts[p][missing[p][j]]

\* C3: the result of embed_documents has the input's length and its i-th
\* vector is the embedding of the i-th text, hit or computed; the index of the
\* returned retriever pairs each chunk with that vector.
C3_OrderPreserved ==
    \A p \in Procs :
       /\ pc[p] = "index" =>
             /\ Len(vectors[p]) = Len(texts[p])
             /\ \A i \in 1..Len(texts[p]) :
                   vectors[p][i] = Some(Embed(texts[p][i]))
       /\ pc[p] = "returned" =>
             /\ Len(retriever[p].index) = Len(texts[p])
             /\ \A i \in 1..Len(texts[p]) :
                   retriever[p].index[i] =
                      [chunk |-> texts[p][i], vector |-> Embed(texts[p][i])]

\* A cached call whose embed_documents has ended with its first text a hit
\* and its second computed.
C3_Witness ==
    \E p \in Procs :
       /\ pc[p] = "index" /\ Cached(p)
       /\ Len(texts[p]) = 2 /\ texts[p][1] # texts[p][2]
       /\ raw[p][1].exists /\ ~raw[p][2].exists
       /\ missing[p] = <<2>>

\* C4: a manager configured with use_cache=False never constructs the cache
\* store and never reads it, neither in run() nor in generate_embeddings()
\* called with the argument left out.
C4_NoStoreWhenCacheOff ==
    \A p \in Procs :
       (~cfg[p].use_cache /\ (inRun[p] \/ argUseCache[p] = UseCacheDefault)) =>
          (~storeMade[p] /\ raw[p] = <<>>)

\* C5: run() calls load_documents, split_documents on the loader's documents
\* and generate_embeddings on the splitter's chunks with use_cache equal to
\* the configured one, once each and in that order, each after the one before
\* has returned, and returns the retriever generate_embeddings made.
C5_StagesInOrder ==
    \A p \in Procs :
       inRun[p] =>
          /\ Len(calls[p]) <= 3
          /\ \A i \in 1..Len(calls[p]) : calls[p][i] = RunStages[i]
          /\ pc[p] = "load" => calls[p] = <<>>
          /\ pc[p] = "split" => Len(calls[p]) = 1
          /\ pc[p] = "gen" => (Len(calls[p]) = 2 /\ splitArg[p] = documents[p])
          /\ pc[p] = "returned" =>
                /\ calls[p] = RunStages
                /\ splitArg[p] = documents[p]
                /\ argUseCache[p] = cfg[p].use_cache
                /\ retriever[p].made
                /\ \A i \in 1..Len(texts[p]) : retriever[p].index[i].chunk = texts[p][i]

\* A run() of a manager with use_cache=False that returned its retriever.
C5_Witness ==
    \E p \in Procs :
       /\ inRun[p] /\ pc[p] = "returned" /\ ~cfg[p].use_cache
       /\ Len(calls[p]) = 3 /\ retriever[p].made

\* C6: the keys of one content under two namespaces differ, and a step changes
\* the entry of (n, c) only when a manager whose namespace is n is writing c.
C6_NamespaceIsolation ==
    /\ [](\A n1, n2 \in Namespaces, c \in Contents :
             n1 # n2 => KeyEncoder(n1, c) # KeyEncoder(n2, c))
    /\ [][\A n \in Namespaces, c \in Contents :
             files'[KeyEncoder(n, c)] # files[KeyEncoder(n, c)] =>
                \E p \in Procs :
                   /\ cfg[p].namespace_cache = n
                   /\ pc[p] \in {"mset", "write"}
                   /\ texts[p][missing[p][idx[p]]] = c]_vars

\* Two managers with different namespaces embed the same content: one has
\* returned and its entry is complete, the other is in the middle of writing
\* its own entry of that content.
C6_Witness ==
    \E p, q \in Procs, c \in Contents :
       /\ cfg[p].namespace_cache # cfg[q].namespace_cache
       /\ pc[p] = "returned" /\ pc[q] = "write"
       /\ texts[q][missing[q][idx[q]]] = c
       /\ files[KeyEncoder(cfg[p].namespace_cache, c)] = Complete(c)
       /\ files[KeyEncoder(cfg[q].namespace_cache, c)] = Truncated

\* C7: a failed read or write of one cache key never fails the call.
C7_IOErrorsAbsorbed ==
    \A p \in Procs : ~(pc[p] = "raised" /\ exc[p] = "OSError")

\* C8: a reader of a key sees the key absent or its complete value.
C8_ReadsAreAtomic ==
    \A p \in Procs :
       \A i \in 1..Len(raw[p]) :
          raw[p][i] = Absent \/ raw[p][i] = Complete(texts[p][i])

\* C9: with chunk_overlap >= chunk_size, run() produces no chunks and returns
\* no retriever.
C9_OverlapAtLeastSizeRejected ==
    \A p \in Procs :
       (inRun[p] /\ cfg[p].chunk_overlap >= cfg[p].chunk_size) =>
          (texts[p] = <<>> /\ pc[p] # "returned" /\ ~retriever[p].made)

\* C9 as amended: with chunk_overlap > chunk_size, run() produces no chunks,
\* never reaches generate_embeddings, returns no retriever, and the error of
\* split_documents is the one run() raises.
C9_OverlapAboveSizeRejected ==
    \A p \in Procs :
       (inRun[p] /\ cfg[p].chunk_overlap > cfg[p].chunk_size) =>
          /\ texts[p] = <<>>
          /\ ~retriever[p].made
          /\ pc[p] \in {"load", "split", "except", "raised"}
          /\ Len(calls[p]) = 2 => (pc[p] \in {"except", "raised"} /\ exc[p] = "ValueError")

\* A run() with chunk_overlap > chunk_size that raised the splitter's error.
C9_Witness ==
    \E p \in Procs :
       /\ inRun[p] /\ cfg[p].chunk_overlap > cfg[p].chunk_size
       /\ pc[p] = "raised" /\ exc[p] = "ValueError" /\ logged[p] = "ValueError"

\* C10: when a stage of run() raises, run() raises that exception after logging
\* it, starts no later stage, returns no retriever, and every cache entry that
\* was persisted before the failure is still complete.
C10_FailurePropagates ==
    \A p \in Procs :
       /\ (inRun[p] /\ pc[p] = "raised") =>
             /\ exc[p] # "none" /\ logged[p] = exc[p]
             /\ ~retriever[p].made
             /\ exc[p] = "LoaderError" => Len(calls[p]) = 1
             /\ exc[p] = "ValueError" => Len(calls[p]) = 2
             /\ \A k \in persisted : IsComplete(files[k])
       /\ (inRun[p] /\ pc[p] = "returned") => (exc[p] = "none" /\ logged[p] = "none")

====
